---- MODULE Spec2Model ----
(***************************************************************************)
(* Model of src/main.py: the EstudoOrchestrator (process_study, test_apis) *)
(* and the aiohttp handlers health_check, api_status and                   *)
(* process_study_endpoint, run by one single-threaded asyncio event loop.  *)
(* A step of the model is the code a coroutine runs between two awaits.    *)
(***************************************************************************)
EXTENDS Integers, Sequences, FiniteSets, TLC

\* ---------------------------------------------------------------- bounds
MaxJobs == 2        \* POST /process requests in one run
MaxTime == 1        \* ticks of the wall clock (datetime.now())
MaxProbes == 2      \* GET /api-status requests in one run

Jobs == 1..MaxJobs
Probes == 1..MaxProbes

VARIABLES
    processing_stats,   \* orchestrator.processing_stats
    now,                \* datetime.now()
    pc,                 \* per /process request: "idle", "sleep" (await asyncio.sleep), "done"
    request_body,       \* per /process request: the body received
    study_data,         \* per process_study invocation: its argument
    results,            \* per process_study invocation: the local list `results`
    phase_i,            \* per process_study invocation: phases of the for loop already run
    ret,                \* per process_study invocation: how it ended
    exc,                \* per process_study invocation: the exception caught by `except Exception as e`
    response,           \* per /process request: the HTTP response
    health_response,    \* the last GET /health response
    probe_pc,           \* per test_apis invocation: "idle", "openai", "supabase", "done"
    probe_results,      \* per test_apis invocation: the local dict `results`
    probe_attempts,     \* per test_apis invocation: requests sent to each provider
    probe_seen,         \* per test_apis invocation: what each request came back with
    probe_response      \* per /api-status request: the HTTP response

vars == <<processing_stats, now, pc, request_body, study_data, results, phase_i, ret, exc,
          response, health_response, probe_pc, probe_results, probe_attempts,
          probe_seen, probe_response>>

jobVars == <<pc, request_body, study_data, results, phase_i, ret, exc, response>>
probeVars == <<probe_pc, probe_results, probe_attempts, probe_seen, probe_response>>

\* ------------------------------------------------------- python values
\* A dict is a set of <<key, value>> pairs.
DictKeys(d) == {p[1] : p \in d}

\* dict.get(key, default)
DictGet(d, k, default) ==
    IF k \in DictKeys(d) THEN (CHOOSE p \in d : p[1] = k)[2] ELSE default

\* d[k] = v
DictSet(d, k, v) == {p \in d : p[1] # k} \cup {<<k, v>>}

\* datetime.isoformat(): a str made from the instant
IsoFormat(t) == <<"iso", t>>

\* x += 1
Increment(n) == n + 1

\* Only a dict has the attribute .get; a str, a list, a number or None raises
\* AttributeError.
HasGet(v) == v.type = "dict"

\* ------------------------------------------------------------ json
\* Types of the values in a payload: a leaf or a container with its children.
PyLeaf(t) == [t |-> t, kids |-> {}]
PyDict(kids) == [t |-> "dict", kids |-> kids]
PyList(kids) == [t |-> "list", kids |-> kids]

\* json.dumps: the default encoder takes dict, list, str, int, float, bool
\* and None, and raises TypeError on anything else (a datetime).
RECURSIVE JsonSerializable(_)
JsonSerializable(ty) ==
    /\ ty.t \in {"dict", "list", "str", "int", "float", "bool", "none"}
    /\ \A k \in ty.kids : JsonSerializable(k)

\* web.json_response(data): dumps(data) runs eagerly; when it raises, the
\* handler raises and the server answers 500.
JsonResponse(data, ty) ==
    IF JsonSerializable(ty)
    THEN [http |-> 200, body |-> data]
    ELSE [http |-> 500, raised |-> "TypeError"]

\* ------------------------------------------------------ request bodies
BodyEmpty == ""
BodyMalformed == "not json"
BodyJsonString == "\"not json\""
BodyJsonList == "[]"
BodyFull == "{\"id\":\"s-1\",\"title\":\"T\"}"
BodyIdOnly == "{\"id\":\"s-2\"}"
BodyEmptyObject == "{}"

Bodies == {BodyEmpty, BodyMalformed, BodyJsonString, BodyJsonList,
           BodyFull, BodyIdOnly, BodyEmptyObject}

\* request.json(): json.loads of the body text; it raises on text that is
\* not JSON and returns whatever JSON value the text denotes otherwise.
JsonLoads(b) ==
    CASE b = BodyFull -> [ok |-> TRUE, val |-> [type |-> "dict",
                            items |-> {<<"id", "s-1">>, <<"title", "T">>}]]
      [] b = BodyIdOnly -> [ok |-> TRUE, val |-> [type |-> "dict",
                            items |-> {<<"id", "s-2">>}]]
      [] b = BodyEmptyObject -> [ok |-> TRUE, val |-> [type |-> "dict", items |-> {}]]
      [] b = BodyJsonString -> [ok |-> TRUE, val |-> [type |-> "str", value |-> "not json"]]
      [] b = BodyJsonList -> [ok |-> TRUE, val |-> [type |-> "list", value |-> <<>>]]
      [] OTHER -> [ok |-> FALSE]

DemoRequest ==
    [type |-> "dict",
     items |-> {<<"id", "demo-study">>,
                <<"title", "Estudo de Demonstração">>,
                <<"client", "Cliente Demo">>}]

\* try: data = await request.json()  except: data = {demo}
ParseBody(b) == IF JsonLoads(b).ok THEN JsonLoads(b).val ELSE DemoRequest

\* ------------------------------------------------------- process_study
phases == <<"Planejamento Estratégico", "Extração de Dados",
            "Geração de Conteúdo", "Polimento Final">>

NumPhases == Len(phases)

\* Exceptions (subclasses of Exception) that a phase can raise.
Exceptions == {[type |-> "MemoryError", args |-> "out of memory"]}

\* str(e)
PyStr(e) == e.args

NoData == [type |-> "unset"]
NoRet == [kind |-> "none"]
NoExc == [type |-> "none"]
NoResponse == [http |-> 0]

StudyId(data) == DictGet(data.items, "id", "demo-001")

PhaseRecord(i, t) ==
    [phase |-> phases[i], status |-> "completed", timestamp |-> IsoFormat(t)]

final_result(data, res, t) ==
    [study_id |-> StudyId(data),
     status |-> "completed",
     phases |-> res,
     final_content |->
        [title |-> DictGet(data.items, "title", "Estudo Técnico Automatizado"),
         chapters |-> 8,
         words |-> 15000,
         images |-> 5,
         charts |-> 3,
         processing_time |-> "2.5 hours",
         cost_usd |-> <<7, 50>>],      \* the float 7.50
     completed_at |-> IsoFormat(t)]

\* Variant: the except clause hands back the records accumulated so far.
error_result_with_phases(data, res, e, t) ==
    [study_id |-> StudyId(data),
     status |-> "error",
     phases |-> res,
     error |-> PyStr(e),
     failed_at |-> IsoFormat(t)]

\* The records accumulated so far (res) are in scope in the except clause
\* and are not put into the result.
error_result(data, res, e, t) ==
    [study_id |-> StudyId(data),
     status |-> "error",
     error |-> PyStr(e),
     failed_at |-> IsoFormat(t)]

PhaseRecordTypes == PyDict({PyLeaf("str")})

\* ids and titles of the modelled bodies are JSON strings
FinalResultTypes ==
    PyDict({PyLeaf("str"),
            PyList({PhaseRecordTypes}),
            PyDict({PyLeaf("str"), PyLeaf("int"), PyLeaf("float")})})

ErrorResultTypes == PyDict({PyLeaf("str")})

\* Variant: `results` is one list shared by the invocations in flight.
AppendRecordShared(res, j, rec) ==
    [k \in DOMAIN res |-> IF pc[k] = "sleep" THEN Append(res[k], rec) ELSE res[k]]

\* results.append(record) on the invocation's own list
AppendRecord(res, j, rec) == [res EXCEPT ![j] = Append(@, rec)]

\* Variant: `= 1` written for `+= 1`.
IncCompletedAssign(stats) ==
    [stats EXCEPT !.studies_completed = 1]

IncCompleted(stats) ==
    [stats EXCEPT !.studies_completed = Increment(@)]

IncFailed(stats) ==
    [stats EXCEPT !.studies_failed = Increment(@)]

Init ==
    /\ processing_stats = [studies_completed |-> 0, studies_failed |-> 0,
                           uptime_start |-> 0]
    /\ now = 0
    /\ pc = [j \in Jobs |-> "idle"]
    /\ request_body = [j \in Jobs |-> BodyEmpty]
    /\ study_data = [j \in Jobs |-> NoData]
    /\ results = [j \in Jobs |-> <<>>]
    /\ phase_i = [j \in Jobs |-> 0]
    /\ ret = [j \in Jobs |-> NoRet]
    /\ exc = [j \in Jobs |-> NoExc]
    /\ response = [j \in Jobs |-> NoResponse]
    /\ health_response = NoResponse
    /\ probe_pc = [p \in Probes |-> "idle"]
    /\ probe_results = [p \in Probes |-> {}]
    /\ probe_attempts = [p \in Probes |-> [openai |-> 0, supabase |-> 0]]
    /\ probe_seen = [p \in Probes |-> {}]
    /\ probe_response = [p \in Probes |-> NoResponse]

\* The wall clock advances.
Tick ==
    /\ now < MaxTime
    /\ now' = now + 1
    /\ UNCHANGED <<processing_stats, health_response>>
    /\ UNCHANGED jobVars
    /\ UNCHANGED probeVars

\* POST /process arrives: the body is parsed (or replaced by the demo
\* request) and process_study runs up to its first await asyncio.sleep(2).
\* study_data.get('id', ...) is evaluated before the try block.
ProcessStudyEndpoint(j, b) ==
    /\ pc[j] = "idle"
    /\ \A q \in Jobs : q < j => pc[q] # "idle"
    /\ request_body' = [request_body EXCEPT ![j] = b]
    /\ study_data' = [study_data EXCEPT ![j] = ParseBody(b)]
    /\ IF HasGet(ParseBody(b))
       THEN /\ pc' = [pc EXCEPT ![j] = "sleep"]
            /\ results' = [results EXCEPT ![j] = <<>>]
            /\ UNCHANGED <<ret, response>>
       ELSE /\ pc' = [pc EXCEPT ![j] = "done"]
            /\ ret' = [ret EXCEPT ![j] = [kind |-> "raised", exc |-> "AttributeError"]]
            /\ response' = [response EXCEPT ![j] =
                                [http |-> 500, raised |-> "AttributeError"]]
            /\ UNCHANGED results
    /\ UNCHANGED <<processing_stats, now, phase_i, exc, health_response>>
    /\ UNCHANGED probeVars

\* Variant: the counter is incremented inside the for loop, once per phase.
PhaseDoneCountsEachPhase(j) ==
    /\ pc[j] = "sleep"
    /\ LET rec == PhaseRecord(phase_i[j] + 1, now)
           appended == AppendRecord(results, j, rec)
       IN /\ results' = appended
          /\ phase_i' = [phase_i EXCEPT ![j] = @ + 1]
          /\ processing_stats' = IncCompleted(processing_stats)
          /\ IF phase_i[j] + 1 < NumPhases
             THEN UNCHANGED <<pc, ret, response>>
             ELSE LET fr == final_result(study_data[j], appended[j], now)
                  IN /\ ret' = [ret EXCEPT ![j] = [kind |-> "returned", value |-> fr]]
                     /\ response' = [response EXCEPT ![j] =
                                        JsonResponse(fr, FinalResultTypes)]
                     /\ pc' = [pc EXCEPT ![j] = "done"]
    /\ UNCHANGED <<now, request_body, study_data, exc, health_response>>
    /\ UNCHANGED probeVars

\* asyncio.sleep(2) returns: the phase record is appended; after the last
\* phase the final result is built, the counter is incremented and the
\* handler answers, all without another await.
PhaseDone(j) ==
    /\ pc[j] = "sleep"
    /\ LET rec == PhaseRecord(phase_i[j] + 1, now)
           appended == AppendRecord(results, j, rec)
       IN /\ results' = appended
          /\ phase_i' = [phase_i EXCEPT ![j] = @ + 1]
          /\ IF phase_i[j] + 1 < NumPhases
             THEN UNCHANGED <<pc, ret, response, processing_stats>>
             ELSE LET fr == final_result(study_data[j], appended[j], now)
                  IN /\ processing_stats' = IncCompleted(processing_stats)
                     /\ ret' = [ret EXCEPT ![j] = [kind |-> "returned", value |-> fr]]
                     /\ response' = [response EXCEPT ![j] =
                                        JsonResponse(fr, FinalResultTypes)]
                     /\ pc' = [pc EXCEPT ![j] = "done"]
    /\ UNCHANGED <<now, request_body, study_data, exc, health_response>>
    /\ UNCHANGED probeVars

\* An exception is raised inside the try block while a phase runs: the
\* except clause counts the failure and returns the error result.
PhaseRaises(j, e) ==
    /\ pc[j] = "sleep"
    /\ exc' = [exc EXCEPT ![j] = e]
    /\ LET er == error_result(study_data[j], results[j], e, now)
       IN /\ processing_stats' = IncFailed(processing_stats)
          /\ ret' = [ret EXCEPT ![j] = [kind |-> "returned", value |-> er]]
          /\ response' = [response EXCEPT ![j] = JsonResponse(er, ErrorResultTypes)]
    /\ pc' = [pc EXCEPT ![j] = "done"]
    /\ UNCHANGED <<now, request_body, study_data, results, phase_i, health_response>>
    /\ UNCHANGED probeVars

\* ------------------------------------------------------------ /health
HealthPayload(stats, t) ==
    [status |-> "healthy",
     service |-> "Esteira de Produção Inteligente",
     uptime_seconds |-> t - stats.uptime_start,
     stats |-> stats,
     timestamp |-> IsoFormat(t)]

\* processing_stats holds two ints and the datetime 'uptime_start'
StatsTypes == PyDict({PyLeaf("int"), PyLeaf("datetime")})

HealthPayloadTypes == PyDict({PyLeaf("str"), PyLeaf("int"), StatsTypes})

health_check ==
    /\ health_response' = JsonResponse(HealthPayload(processing_stats, now),
                                       HealthPayloadTypes)
    /\ UNCHANGED <<processing_stats, now>>
    /\ UNCHANGED jobVars
    /\ UNCHANGED probeVars

\* ------------------------------------------------------------ test_apis
\* What one HTTP request of a probe comes back with: a response with a
\* status code, or an exception raised by aiohttp (connection failure,
\* asyncio.TimeoutError after timeout=30).
HTTP_OK == 200

StatusCodes == {200, 204, 401, 500}

ProbeExceptions == {[type |-> "ClientConnectorError", args |-> "Cannot connect to host"],
                    [type |-> "TimeoutError", args |-> ""]}

ProbeOutcomes ==
    {[kind |-> "response", status |-> c] : c \in StatusCodes}
        \cup {[kind |-> "raised", e |-> e] : e \in ProbeExceptions}

\* Variant: any 2xx status counts as ok.
ProbeEntryAny2xx(o, response_time) ==
    IF o.kind = "response"
    THEN {<<"status", IF o.status \in 200..299 THEN "ok" ELSE "error">>,
          <<"response_time", response_time>>}
    ELSE {<<"status", "error">>, <<"error", PyStr(o.e)>>}

\* results[provider] = {...} in the with block, or in the except clause
ProbeEntry(o, response_time) ==
    IF o.kind = "response"
    THEN {<<"status", IF o.status = HTTP_OK THEN "ok" ELSE "error">>,
          <<"response_time", response_time>>}
    ELSE {<<"status", "error">>, <<"error", PyStr(o.e)>>}

ProbeEntryTypes == PyDict({PyLeaf("str")})

ApiStatusTypes == PyDict({PyDict({ProbeEntryTypes}), PyLeaf("str")})

ApiStatusPayload(res, t) == [apis |-> res, timestamp |-> IsoFormat(t)]

\* GET /api-status arrives: test_apis starts with results = {} and sends the
\* openai request.
api_status(p) ==
    /\ probe_pc[p] = "idle"
    /\ \A q \in Probes : q < p => probe_pc[q] # "idle"
    /\ probe_pc' = [probe_pc EXCEPT ![p] = "openai"]
    /\ probe_results' = [probe_results EXCEPT ![p] = {}]
    /\ probe_attempts' = [probe_attempts EXCEPT ![p].openai = Increment(@)]
    /\ UNCHANGED <<probe_seen, probe_response>>
    /\ UNCHANGED <<processing_stats, now, health_response>>
    /\ UNCHANGED jobVars

\* Variant: one try block around both probes; an exception in the openai
\* probe ends test_apis with the openai entry alone.
OpenaiAnsweredOneTry(p, o) ==
    /\ probe_pc[p] = "openai"
    /\ probe_seen' = [probe_seen EXCEPT ![p] = DictSet(@, "openai", o)]
    /\ LET res == DictSet(probe_results[p], "openai", ProbeEntry(o, "~1s"))
       IN /\ probe_results' = [probe_results EXCEPT ![p] = res]
          /\ IF o.kind = "raised"
             THEN /\ probe_pc' = [probe_pc EXCEPT ![p] = "done"]
                  /\ probe_response' = [probe_response EXCEPT ![p] =
                        JsonResponse(ApiStatusPayload(res, now), ApiStatusTypes)]
                  /\ UNCHANGED probe_attempts
             ELSE /\ probe_pc' = [probe_pc EXCEPT ![p] = "supabase"]
                  /\ probe_attempts' = [probe_attempts EXCEPT ![p].supabase = Increment(@)]
                  /\ UNCHANGED probe_response
    /\ UNCHANGED <<processing_stats, now, health_response>>
    /\ UNCHANGED jobVars

\* The openai request comes back (or raises inside its try block); its
\* entry is stored and the supabase request is sent.
OpenaiAnswered(p, o) ==
    /\ probe_pc[p] = "openai"
    /\ probe_seen' = [probe_seen EXCEPT ![p] = DictSet(@, "openai", o)]
    /\ probe_results' = [probe_results EXCEPT ![p] =
                            DictSet(@, "openai", ProbeEntry(o, "~1s"))]
    /\ probe_attempts' = [probe_attempts EXCEPT ![p].supabase = Increment(@)]
    /\ probe_pc' = [probe_pc EXCEPT ![p] = "supabase"]
    /\ UNCHANGED probe_response
    /\ UNCHANGED <<processing_stats, now, health_response>>
    /\ UNCHANGED jobVars

\* The supabase request comes back (or raises inside its try block); its
\* entry is stored, test_apis returns and the handler answers.
SupabaseAnswered(p, o) ==
    /\ probe_pc[p] = "supabase"
    /\ probe_seen' = [probe_seen EXCEPT ![p] = DictSet(@, "supabase", o)]
    /\ LET res == DictSet(probe_results[p], "supabase", ProbeEntry(o, "~500ms"))
       IN /\ probe_results' = [probe_results EXCEPT ![p] = res]
          /\ probe_response' = [probe_response EXCEPT ![p] =
                JsonResponse(ApiStatusPayload(res, now), ApiStatusTypes)]
    /\ probe_pc' = [probe_pc EXCEPT ![p] = "done"]
    /\ UNCHANGED probe_attempts
    /\ UNCHANGED <<processing_stats, now, health_response>>
    /\ UNCHANGED jobVars

\* ------------------------------------------------------ specifications
\* The whole server but the probes: clock, /process and /health.
Next ==
    \/ Tick
    \/ \E j \in Jobs, b \in Bodies : ProcessStudyEndpoint(j, b)
    \/ \E j \in Jobs : PhaseDone(j)
    \/ \E j \in Jobs, e \in Exceptions : PhaseRaises(j, e)
    \/ health_check

Spec == Init /\ [][Next]_vars

\* The /process requests alone, at one instant of the clock (timestamps are
\* written into results and never read).
NextJobs ==
    \/ \E j \in Jobs, b \in Bodies : ProcessStudyEndpoint(j, b)
    \/ \E j \in Jobs : PhaseDone(j)
    \/ \E j \in Jobs, e \in Exceptions : PhaseRaises(j, e)

SpecJobs == Init /\ [][NextJobs]_vars

\* The /api-status requests alone.
NextProbe ==
    \/ \E p \in Probes : api_status(p)
    \/ \E p \in Probes, o \in ProbeOutcomes : OpenaiAnswered(p, o)
    \/ \E p \in Probes, o \in ProbeOutcomes : SupabaseAnswered(p, o)

SpecProbe == Init /\ [][NextProbe]_vars

\* -------------------------------------------------------------- claims
Returned(j) == ret[j].kind = "returned"

ReturnedWith(st) == {j \in Jobs : Returned(j) /\ ret[j].value.status = st}

Ended == {j \in Jobs : pc[j] = "done"}

Started == {j \in Jobs : pc[j] # "idle"}

\* C1: once every invocation of process_study has ended, studies_completed
\* is the number of invocations that returned status 'completed' and
\* studies_failed the number that returned status 'error', whatever the
\* interleaving of their sleeps.
C1_CountersMatchReturns ==
    Ended = Jobs =>
        /\ processing_stats.studies_completed = Cardinality(ReturnedWith("completed"))
        /\ processing_stats.studies_failed = Cardinality(ReturnedWith("error"))

C1_Witness ==
    /\ Ended = Jobs
    /\ Cardinality(ReturnedWith("completed")) = 1
    /\ Cardinality(ReturnedWith("error")) = 1

\* C2: a job processed without a failure returns its own request's study_id
\* and exactly the four phase records, in the declared order, each
\* 'completed', also when other jobs run at the same time.
C2_OwnIdAndFourPhasesInOrder ==
    \A j \in ReturnedWith("completed") :
        LET v == ret[j].value
        IN /\ v.study_id = StudyId(ParseBody(request_body[j]))
           /\ Len(v.phases) = NumPhases
           /\ \A i \in 1..Len(v.phases) :
                /\ v.phases[i].phase = phases[i]
                /\ v.phases[i].status = "completed"

C2_Witness ==
    \E j, k \in Jobs :
        /\ j \in ReturnedWith("completed")
        /\ pc[k] = "sleep"
        /\ Len(results[k]) >= 1
        /\ StudyId(study_data[k]) # ret[j].value.study_id

\* C3: process_study never raises outward: every invocation, whatever value
\* the request body parsed to, ends by returning a result.
C3_NeverRaisesOutward ==
    \A j \in Ended : Returned(j)

\* C4: POST /process with an empty or invalid body (the spec's example is
\* the body "not json", quotes included) is answered 200 with the result of
\* the demo request: status 'completed' and the demo title, when nothing
\* fails in the pipeline.
C4_InvalidBodyFallsBackToDemo ==
    \A j \in Ended :
        (request_body[j] \in {BodyEmpty, BodyMalformed, BodyJsonString} /\ exc[j] = NoExc)
            => /\ response[j].http = 200
               /\ study_data[j] = DemoRequest
               /\ response[j].body.status = "completed"
               /\ response[j].body.final_content.title = "Estudo de Demonstração"

\* C5: every invocation of process_study that has ended incremented exactly
\* one of the two counters, by one.
C5_ExactlyOneCounterPerInvocation ==
    processing_stats.studies_completed + processing_stats.studies_failed
        = Cardinality(Ended)

\* C6: GET /health always answers 200 with status 'healthy', an integer
\* uptime_seconds, the stats and a timestamp.
C6_HealthAlways200 ==
    health_response # NoResponse =>
        /\ health_response.http = 200
        /\ health_response.body.status = "healthy"
        /\ health_response.body.uptime_seconds \in Int
        /\ health_response.body.stats = processing_stats
        /\ "timestamp" \in DOMAIN health_response.body

NoOutcome == [kind |-> "none"]

\* C7: whatever the openai probe comes back with, the supabase probe is
\* sent exactly once, the mapping returned has exactly the entries 'openai'
\* and 'supabase', a provider whose request raised has status 'error', and
\* the supabase entry depends on the supabase outcome alone.
C7_ProbesIndependent ==
    /\ \A p \in Probes :
        probe_pc[p] \in {"supabase", "done"} =>
            /\ "openai" \in DictKeys(probe_seen[p])
            /\ probe_attempts[p] = [openai |-> 1, supabase |-> 1]
    /\ \A p \in Probes :
        probe_pc[p] = "done" =>
            /\ DictKeys(probe_results[p]) = {"openai", "supabase"}
            /\ probe_response[p].http = 200
            /\ probe_response[p].body.apis = probe_results[p]
            /\ \A n \in {"openai", "supabase"} :
                DictGet(probe_seen[p], n, NoOutcome).kind = "raised" =>
                    DictGet(DictGet(probe_results[p], n, {}), "status", "") = "error"
    /\ \A p, q \in Probes :
        (/\ probe_pc[p] = "done"
         /\ probe_pc[q] = "done"
         /\ DictGet(probe_seen[p], "supabase", NoOutcome) = DictGet(probe_seen[q], "supabase", NoOutcome))
            => DictGet(probe_results[p], "supabase", {}) = DictGet(probe_results[q], "supabase", {})

C7_Witness ==
    \E p, q \in Probes :
        /\ probe_pc[p] = "done"
        /\ probe_pc[q] = "done"
        /\ DictGet(probe_seen[p], "openai", NoOutcome).kind = "raised"
        /\ DictGet(probe_seen[q], "openai", NoOutcome) = [kind |-> "response", status |-> HTTP_OK]
        /\ DictGet(probe_seen[p], "supabase", NoOutcome) = [kind |-> "response", status |-> HTTP_OK]
        /\ DictGet(probe_seen[q], "supabase", NoOutcome) = [kind |-> "response", status |-> HTTP_OK]
        /\ DictGet(DictGet(probe_results[p], "supabase", {}), "status", "") = "ok"

EntriesSeen ==
    {<<p, n>> \in Probes \X {"openai", "supabase"} : n \in DictKeys(probe_results[p])}

OutcomeOf(pn) == DictGet(probe_seen[pn[1]], pn[2], NoOutcome)

EntryOf(pn) == DictGet(probe_results[pn[1]], pn[2], {})

\* C9 as stated: an entry is 'ok' exactly when the request returned an HTTP
\* success status (2xx), and an entry of a request that raised carries the
\* error detail as a string.
C9_OkIffHttpSuccess ==
    \A pn \in EntriesSeen :
        /\ DictGet(EntryOf(pn), "status", "") \in {"ok", "error"}
        /\ DictGet(EntryOf(pn), "status", "") = "ok"
            <=> (OutcomeOf(pn).kind = "response" /\ OutcomeOf(pn).status \in 200..299)
        /\ OutcomeOf(pn).kind = "raised"
            => /\ "error" \in DictKeys(EntryOf(pn))
               /\ DictGet(EntryOf(pn), "error", "") = PyStr(OutcomeOf(pn).e)

\* C9 amended: an entry is 'ok' exactly when the request returned status
\* 200; every other status (other 2xx included) and every exception gives
\* 'error'; the entry of a request that raised carries str(e) under
\* 'error', the entry of a response carries 'response_time' and no error
\* detail.
C9_OkIffStatus200 ==
    \A pn \in EntriesSeen :
        /\ DictGet(EntryOf(pn), "status", "") \in {"ok", "error"}
        /\ DictGet(EntryOf(pn), "status", "") = "ok"
            <=> (OutcomeOf(pn).kind = "response" /\ OutcomeOf(pn).status = HTTP_OK)
        /\ OutcomeOf(pn).kind = "raised"
            => /\ DictKeys(EntryOf(pn)) = {"status", "error"}
               /\ DictGet(EntryOf(pn), "error", "") = PyStr(OutcomeOf(pn).e)
        /\ OutcomeOf(pn).kind = "response"
            => DictKeys(EntryOf(pn)) = {"status", "response_time"}

C9_Witness ==
    \E pn, qn \in EntriesSeen :
        /\ OutcomeOf(pn) = [kind |-> "response", status |-> 204]
        /\ DictGet(EntryOf(pn), "status", "") = "error"
        /\ OutcomeOf(qn).kind = "raised"
        /\ DictGet(EntryOf(qn), "status", "") = "error"

\* C8 as stated: a result has status 'error' exactly when an exception was
\* raised during the pipeline, and then it carries the phase records
\* accumulated before the failure, a prefix of the four phases.
C8_ErrorCarriesPartialPhases ==
    \A j \in Jobs :
        Returned(j) =>
            /\ ret[j].value.status = "error" <=> exc[j] # NoExc
            /\ ret[j].value.status = "error" =>
                /\ "phases" \in DOMAIN ret[j].value
                /\ ret[j].value.phases = results[j]
                /\ Len(results[j]) <= NumPhases
                /\ \A i \in 1..Len(results[j]) : results[j][i].phase = phases[i]

\* C8 amended: a result has status 'error' exactly when an exception was
\* raised during the pipeline, and then it has the fields study_id, status,
\* error (the exception's message) and failed_at only: the phase records
\* accumulated before the failure are not in it.
C8_ErrorIffExceptionNoPhases ==
    \A j \in Jobs :
        Returned(j) =>
            /\ ret[j].value.status \in {"completed", "error"}
            /\ ret[j].value.status = "error" <=> exc[j] # NoExc
            /\ ret[j].value.status = "error" =>
                /\ DOMAIN ret[j].value = {"study_id", "status", "error", "failed_at"}
                /\ ret[j].value.error = PyStr(exc[j])
            /\ ret[j].value.status = "completed" =>
                "phases" \in DOMAIN ret[j].value

C8_Witness ==
    \E j \in ReturnedWith("error") :
        /\ Len(results[j]) >= 1
        /\ "phases" \notin DOMAIN ret[j].value

C10_State ==
    /\ processing_stats.studies_completed
        <= Cardinality({j \in Jobs : Len(results[j]) = NumPhases /\ pc[j] = "done"})
    /\ processing_stats.studies_completed + processing_stats.studies_failed
        <= Cardinality(Ended)
    /\ processing_stats.studies_completed + processing_stats.studies_failed
        <= Cardinality(Started)

C10_Step ==
    /\ processing_stats'.studies_completed >= processing_stats.studies_completed
    /\ processing_stats'.studies_failed >= processing_stats.studies_failed

\* C10: in every reachable state studies_completed counts only jobs whose
\* four phase records have all been appended, a job suspended in a sleep
\* counts in neither counter, the two counters together never exceed the
\* number of jobs started, and no step decreases a counter.
C10_CountersFollowJobs ==
    []C10_State /\ [][C10_Step]_vars

C10_Witness ==
    \E j, k \in Jobs :
        /\ pc[j] = "sleep"
        /\ Len(results[j]) = NumPhases - 1
        /\ k \in ReturnedWith("completed")
        /\ processing_stats.studies_completed = 1

TypeOK ==
    /\ processing_stats.studies_completed \in 0..MaxJobs
    /\ processing_stats.studies_failed \in 0..MaxJobs
    /\ now \in 0..MaxTime
    /\ \A j \in Jobs : pc[j] \in {"idle", "sleep", "done"}
    /\ \A p \in Probes : probe_pc[p] \in {"idle", "openai", "supabase", "done"}
====
